---- MODULE Spec2Model ----
(***************************************************************************)
(* Model of src/app.py: the TwitterScraper class (login, cookie login,     *)
(* search_player_tweets, get_user_tweets), SentimentAnalyzer.analyze_spanish*)
(* and the Streamlit handler main().                                       *)
(*                                                                         *)
(* Strings are sequences of tokens (a token is a piece of text: a word, a  *)
(* blank, a double quote, ...); an f-string is the concatenation of its    *)
(* pieces.  Scores are in hundredths (0.8 is 80, 0.05 is 5, 1.0 is 100).   *)
(* Times are in hours; a timedelta's .days is the floor of hours / 24.     *)
(***************************************************************************)
EXTENDS Integers, Sequences, FiniteSets

VARIABLES
    pc,           \* position of the running code
    caller,       \* "main": the Streamlit handler runs; "direct": the scraper's
                  \* methods are called directly; "query"/"analyze": one function
    player_name,  \* st.text_input "Nombre del jugador" / argument player_name
    team_name,    \* st.text_input "Equipo (opcional)" / argument team_name
    credentials,  \* username and email and password are all non-empty
    days_back,    \* slider "Dias hacia atras" / argument days_back
    max_tweets,   \* slider "Maximo de tweets" / argument max_tweets
    utc_offset,   \* the host's local time zone, hours east of UTC
    logged_in,    \* TwitterScraper.logged_in
    calls,        \* the calls made on the twikit client so far, in order
    ncalls,       \* number of direct method calls made so far
    method,       \* the scraper method being executed
    query,        \* the query string built by search_player_tweets
    yielded,      \* the posts the backend's result has yielded to the for loop
    tweet,        \* the for loop's variable
    tweets_data,  \* the list being collected
    status,       \* how the last scraper method ended
    tweets,       \* what the last search returned (main's variable tweets)
    idx,          \* main's classification loop: index of the next tweet
    text,         \* the text handed to analyze_spanish
    analysis,     \* what analyze_spanish returned
    ui,           \* the Streamlit elements emitted so far, in order
    stats         \* the numbers main computes for the summary and the chart

vars == <<pc, caller, player_name, team_name, credentials, days_back, max_tweets,
          utc_offset, logged_in, calls, ncalls, method, query, yielded, tweet,
          tweets_data, status, tweets, idx, text, analysis, ui, stats>>

(***************************************************************************)
(* Bounds of the model.                                                    *)
(***************************************************************************)
MaxNameLen == 3     \* tokens in a player name given to the query builder
MaxTeamLen == 2     \* tokens in a team name given to the query builder
MaxPosts == 4       \* posts the backend yields in one search
MaxTweets == 3      \* largest max_tweets tried
MaxDaysBack == 1    \* largest days_back tried
MaxCalls == 2       \* direct method calls on one scraper

(***************************************************************************)
(* Values.                                                                 *)
(***************************************************************************)
Quote == "\""
Blank == " "

\* Python's None, kept apart from every string (no token is "<None>").
None == <<"<None>">>

\* Python truthiness of an optional string: None and "" are false.
Truthy(s) == s # None /\ s # <<>>

NameTokens == {"Lionel", "Messi", Blank, Quote}
TeamTokens == {"All", "Boys", Blank}

SeqsUpTo(S, n) == UNION {[1..k -> S] : k \in 0..n}

Names == SeqsUpTo(NameTokens, MaxNameLen)
Teams == {None} \cup SeqsUpTo(TeamTokens, MaxTeamLen)

Min(a, b) == IF a <= b THEN a ELSE b
Max(a, b) == IF a >= b THEN a ELSE b

(***************************************************************************)
(* search_player_tweets, lines 55-59: the query.                           *)
(***************************************************************************)
KeywordGroup == <<"(", "gol", Blank, "OR", Blank, "asistencia", Blank, "OR", Blank,
                  "partido", ")">>
Filters == <<"lang:es", Blank, "-filter:retweets">>

BuildQuery_orJoined(player, team) ==
    IF Truthy(team)
    THEN <<Quote>> \o player \o <<Quote, Blank, "OR", Blank, Quote>> \o team
         \o <<Quote, Blank>> \o Filters
    ELSE <<Quote>> \o player \o <<Quote, Blank>> \o Filters

BuildQuery(player, team) ==
    IF Truthy(team)
    THEN <<Quote>> \o player \o <<Quote, Blank, Quote>> \o team
         \o <<Quote, Blank>> \o Filters
    ELSE <<Quote>> \o player \o <<Quote, Blank>> \o KeywordGroup
         \o <<Blank>> \o Filters

(***************************************************************************)
(* SentimentAnalyzer, lines 147-195.  A text is given by what the function *)
(* reads of it: how many of the positive and of the negative keywords      *)
(* occur in it, and VADER's compound score for it, in [-1, 1].             *)
(***************************************************************************)
NumPositiveKeywords == 16
NumNegativeKeywords == 14

Texts == [pos_words : 0..NumPositiveKeywords,
          neg_words : 0..NumNegativeKeywords,
          compound  : -100..100]

analyze_spanish_unclamped(t) ==
    LET pos_count == t.pos_words
        neg_count == t.neg_words
        out(s, x) == [sentiment |-> s, score |-> x,
                      pos_words |-> pos_count, neg_words |-> neg_count]
    IN  IF pos_count > neg_count THEN out("positivo", 80 + pos_count * 10)
        ELSE IF neg_count > pos_count THEN out("negativo", -80 - neg_count * 10)
        ELSE IF t.compound >= 5 THEN out("positivo", t.compound)
        ELSE IF t.compound <= -5 THEN out("negativo", t.compound)
        ELSE out("neutral", t.compound)

analyze_spanish(t) ==
    LET pos_count == t.pos_words
        neg_count == t.neg_words
        out(s, x) == [sentiment |-> s, score |-> x,
                      pos_words |-> pos_count, neg_words |-> neg_count]
    IN  IF pos_count > neg_count
        THEN out("positivo", Min(80 + pos_count * 10, 100))
        ELSE IF neg_count > pos_count
        THEN out("negativo", Max(-80 - neg_count * 10, -100))
        ELSE IF t.compound >= 5 THEN out("positivo", t.compound)
        ELSE IF t.compound <= -5 THEN out("negativo", t.compound)
        ELSE out("neutral", t.compound)

NoAnalysis == [sentiment |-> "", score |-> 0, pos_words |-> 0, neg_words |-> 0]
NoPost == [hours_ago |-> 0, parses |-> TRUE]
NoText == [pos_words |-> 0, neg_words |-> 0, compound |-> 0]
NoStats == [total |-> 0, positivos |-> 0, negativos |-> 0, pct_pos |-> 0,
            pct_neg |-> 0, promedio |-> 0,
            counts |-> [l \in {} |-> 0]]

\* What every run starts from, whatever its inputs.
Fresh ==
    /\ logged_in = FALSE /\ calls = <<>> /\ ncalls = 0 /\ method = ""
    /\ query = None /\ yielded = <<>> /\ tweet = NoPost /\ tweets_data = <<>>
    /\ status = "" /\ tweets = <<>> /\ idx = 0
    /\ analysis = NoAnalysis /\ ui = <<>> /\ stats = NoStats

(***************************************************************************)
(* The twikit backend.  A post is given by what the code reads of it: its  *)
(* created_at, i.e. how many hours before the run it was posted (the API   *)
(* stamps it in UTC, "+0000"), and whether created_at parses under         *)
(* '%a %b %d %H:%M:%S %z %Y'.  The text of a post is drawn when it is first *)
(* read, at line 289.                                                      *)
(***************************************************************************)
HoursAgo == {10, 24 * (MaxDaysBack + 1) + 2}
Posts == {[hours_ago |-> h, parses |-> TRUE] : h \in HoursAgo}
         \cup {[hours_ago |-> 0, parses |-> FALSE]}

LocalOffsets == {-3, 0}

\* The texts main's classification loop meets.
TextInputs == {[pos_words |-> 1, neg_words |-> 0, compound |-> 0],
               [pos_words |-> 0, neg_words |-> 1, compound |-> 0],
               [pos_words |-> 0, neg_words |-> 0, compound |-> 0],
               [pos_words |-> 1, neg_words |-> 1, compound |-> 40]}

NameInputs == {<<>>, <<Blank>>, <<"Lionel", Blank, "Messi">>}
TeamInputs == {<<>>, <<"Boys">>}

Call(fn, ok) == [fn |-> fn, ok |-> ok]

(***************************************************************************)
(* The conditions of the scraper's code.                                   *)
(***************************************************************************)
\* lines 52 and 108: if not self.logged_in: raise
NotLoggedIn_never(flag) == FALSE
NotLoggedIn(flag) == ~flag

\* lines 70 and 120: if len(tweets_data) >= max_tweets: break
LimitReached_offByOne(data, limit) == Len(data) > limit
LimitReached(data, limit) == Len(data) >= limit

\* lines 74-78: (datetime.now() - tweet_date.replace(tzinfo=None)).days.
\* datetime.now() is the host's wall clock, utc + offset; replace(tzinfo=None)
\* keeps the post's wall clock, which is UTC; .days floors.
AgeDays(post, offset) == (post.hours_ago + offset) \div 24

\* line 78: ... > days_back: continue
TooOld(post, offset, days) == AgeDays(post, offset) > days

\* lines 99-101 and 136-138: except Exception: return []
OnException_partial(data) == data
OnException(data) == <<>>

\* line 252: if not success
NeedsLogin(success) == ~success

(***************************************************************************)
(* How a scraper method ends.                                              *)
(***************************************************************************)
Return(value, how) ==
    /\ tweets' = value
    /\ status' = how
    /\ pc' = IF caller = "main" THEN "main_tweets" ELSE "idle"

\* raise Exception("Debes hacer login primero"): nothing in main catches it.
RaiseNotLoggedIn ==
    /\ status' = "raised"
    /\ IF caller = "main"
       THEN ui' = Append(ui, "exception") /\ pc' = "main_done"
       ELSE ui' = ui /\ pc' = "idle"

Caught == {"caught_search_tweet", "caught_iteration", "caught_date",
           "caught_fields", "caught_get_user", "caught_get_user_tweets"}

(***************************************************************************)
(* TwitterScraper.login_with_cookies, lines 30-39.                         *)
(***************************************************************************)
LoginWithCookies ==
    /\ pc = "cookies"
    /\ \/ /\ calls' = Append(calls, Call("load_cookies", TRUE))
          /\ logged_in' = TRUE
          /\ status' = "True"
          /\ pc' = IF caller # "main" THEN "idle"
                   ELSE IF NeedsLogin(TRUE) THEN "login" ELSE "search"
       \/ /\ calls' = Append(calls, Call("load_cookies", FALSE))
          /\ logged_in' = logged_in
          /\ status' = "False"
          /\ pc' = IF caller # "main" THEN "idle"
                   ELSE IF NeedsLogin(FALSE) THEN "login" ELSE "search"
    /\ method' = IF pc' = "idle" THEN method
                 ELSE IF pc' = "login" THEN "login" ELSE "search_player_tweets"
    /\ UNCHANGED <<caller, player_name, team_name, credentials, days_back,
                   max_tweets, utc_offset, ncalls, query, yielded, tweet,
                   tweets_data, tweets, idx, text, analysis, ui, stats>>

(***************************************************************************)
(* TwitterScraper.login, lines 14-28, and main's handler, lines 256-258.   *)
(***************************************************************************)
LoginFailed ==
    /\ status' = "raised"
    /\ logged_in' = logged_in
    /\ IF caller = "main"
       THEN ui' = Append(ui, "error_login") /\ pc' = "main_done"
       ELSE ui' = ui /\ pc' = "idle"
    /\ method' = method

Login ==
    /\ pc = "login"
    /\ \/ /\ calls' = calls \o <<Call("login", TRUE), Call("save_cookies", TRUE)>>
          /\ logged_in' = TRUE
          /\ status' = "returned"
          /\ ui' = ui
          /\ pc' = IF caller = "main" THEN "search" ELSE "idle"
          /\ method' = IF caller = "main" THEN "search_player_tweets" ELSE method
       \/ /\ calls' = Append(calls, Call("login", FALSE))
          /\ LoginFailed
       \/ /\ calls' = calls \o <<Call("login", TRUE), Call("save_cookies", FALSE)>>
          /\ LoginFailed
    /\ UNCHANGED <<caller, player_name, team_name, credentials, days_back,
                   max_tweets, utc_offset, ncalls, query, yielded, tweet,
                   tweets_data, tweets, idx, text, analysis, stats>>

(***************************************************************************)
(* TwitterScraper.search_player_tweets, lines 41-101.                      *)
(***************************************************************************)
SearchPlayerTweets ==
    /\ pc = "search"
    /\ \/ /\ NotLoggedIn(logged_in)
          /\ RaiseNotLoggedIn
          /\ UNCHANGED <<calls, query, tweets_data, tweets>>
       \/ /\ ~NotLoggedIn(logged_in)
          /\ query' = BuildQuery(player_name, team_name)
          /\ tweets_data' = <<>>
          /\ calls' = Append(calls, Call("search_tweet", TRUE))
          /\ pc' = "for"
          /\ UNCHANGED <<status, tweets, ui>>
       \/ /\ ~NotLoggedIn(logged_in)
          /\ query' = BuildQuery(player_name, team_name)
          /\ tweets_data' = <<>>
          /\ calls' = Append(calls, Call("search_tweet", FALSE))
          /\ Return(OnException(tweets_data'), "caught_search_tweet")
          /\ ui' = ui
    /\ UNCHANGED <<caller, player_name, team_name, credentials, days_back,
                   max_tweets, utc_offset, logged_in, ncalls, method, yielded,
                   tweet, idx, text, analysis, stats>>

(***************************************************************************)
(* TwitterScraper.get_user_tweets, lines 103-138.                          *)
(***************************************************************************)
GetUserTweets ==
    /\ pc = "user"
    /\ \/ /\ NotLoggedIn(logged_in)
          /\ RaiseNotLoggedIn
          /\ UNCHANGED <<calls, tweets_data, tweets>>
       \/ /\ ~NotLoggedIn(logged_in)
          /\ calls' = calls \o <<Call("get_user_by_screen_name", TRUE),
                                 Call("get_user_tweets", TRUE)>>
          /\ tweets_data' = <<>>
          /\ pc' = "for"
          /\ UNCHANGED <<status, tweets, ui>>
       \/ /\ ~NotLoggedIn(logged_in)
          /\ calls' = Append(calls, Call("get_user_by_screen_name", FALSE))
          /\ Return(OnException(tweets_data), "caught_get_user")
          /\ UNCHANGED <<tweets_data, ui>>
       \/ /\ ~NotLoggedIn(logged_in)
          /\ calls' = calls \o <<Call("get_user_by_screen_name", TRUE),
                                 Call("get_user_tweets", FALSE)>>
          /\ Return(OnException(tweets_data), "caught_get_user_tweets")
          /\ UNCHANGED <<tweets_data, ui>>
    /\ UNCHANGED <<caller, player_name, team_name, credentials, days_back,
                   max_tweets, utc_offset, logged_in, ncalls, method, query,
                   yielded, tweet, idx, text, analysis, stats>>

(***************************************************************************)
(* The collection loops, lines 68-97 and 119-134, one step at a time.      *)
(***************************************************************************)
\* for tweet in tweets: the next post, the end of the result, or a fault.
ForNext ==
    /\ pc = "for"
    /\ \/ /\ Len(yielded) < MaxPosts
          /\ \E p \in Posts :
               /\ tweet' = p
               /\ yielded' = Append(yielded, p)
          /\ pc' = "limit"
          /\ UNCHANGED <<status, tweets>>
       \/ /\ Return(tweets_data, "returned")
          /\ UNCHANGED <<tweet, yielded>>
       \/ /\ Return(OnException(tweets_data), "caught_iteration")
          /\ UNCHANGED <<tweet, yielded>>
    /\ UNCHANGED <<caller, player_name, team_name, credentials, days_back,
                   max_tweets, utc_offset, logged_in, calls, ncalls, method,
                   query, tweets_data, idx, text, analysis, ui, stats>>

\* if len(tweets_data) >= max_tweets: break
LimitCheck ==
    /\ pc = "limit"
    /\ \/ /\ LimitReached(tweets_data, max_tweets)
          /\ Return(tweets_data, "returned")
       \/ /\ ~LimitReached(tweets_data, max_tweets)
          /\ pc' = IF method = "search_player_tweets" THEN "date" ELSE "append"
          /\ UNCHANGED <<status, tweets>>
    /\ UNCHANGED <<caller, player_name, team_name, credentials, days_back,
                   max_tweets, utc_offset, logged_in, calls, ncalls, method,
                   query, yielded, tweet, tweets_data, idx, text, analysis, ui,
                   stats>>

\* tweet_date = datetime.strptime(...); if (...).days > days_back: continue
DateFilter ==
    /\ pc = "date"
    /\ \/ /\ ~tweet.parses
          /\ Return(OnException(tweets_data), "caught_date")
       \/ /\ tweet.parses
          /\ TooOld(tweet, utc_offset, days_back)
          /\ pc' = "for"
          /\ UNCHANGED <<status, tweets>>
       \/ /\ tweet.parses
          /\ ~TooOld(tweet, utc_offset, days_back)
          /\ pc' = "append"
          /\ UNCHANGED <<status, tweets>>
    /\ UNCHANGED <<caller, player_name, team_name, credentials, days_back,
                   max_tweets, utc_offset, logged_in, calls, ncalls, method,
                   query, yielded, tweet, tweets_data, idx, text, analysis, ui,
                   stats>>

\* tweets_data.append({...}); await asyncio.sleep(1).  Reading the post's
\* fields (tweet.user.name, ...) may raise inside the try block.
AppendTweet ==
    /\ pc = "append"
    /\ \/ /\ tweets_data' = Append(tweets_data, [fecha |-> tweet])
          /\ pc' = "for"
          /\ UNCHANGED <<status, tweets>>
       \/ /\ Return(OnException(tweets_data), "caught_fields")
          /\ tweets_data' = tweets_data
    /\ UNCHANGED <<caller, player_name, team_name, credentials, days_back,
                   max_tweets, utc_offset, logged_in, calls, ncalls, method,
                   query, yielded, tweet, idx, text, analysis, ui, stats>>

(***************************************************************************)
(* main, lines 198-347: one click of the button.                           *)
(***************************************************************************)
HasKey(d, k) == k \in DOMAIN d

\* tweet.update(analysis), with the text that was read
Updated(d, t, a) ==
    [fecha |-> d.fecha, contenido |-> t, sentiment |-> a.sentiment,
     score |-> a.score, pos_words |-> a.pos_words, neg_words |-> a.neg_words]

\* A row's cell in the DataFrame's column: NaN where the dict has no such key.
Label(d) == IF HasKey(d, "sentiment") THEN d.sentiment ELSE "NaN"

\* for tweet in tweets (line 288): the loop ends after the last tweet
AnalysisDone_skipsLast(i, n) == i >= n
AnalysisDone(i, n) == i > n

\* if not tweets (line 270)
NoTweets(found) == found = <<>>

\* len(df[df['sentiment'] == label])
RECURSIVE CountLabel(_, _)
CountLabel(rows, label) ==
    IF rows = <<>> THEN 0
    ELSE (IF Label(Head(rows)) = label THEN 1 ELSE 0) + CountLabel(Tail(rows), label)

RECURSIVE SumScores(_)
SumScores(rows) ==
    IF rows = <<>> THEN 0
    ELSE (IF HasKey(Head(rows), "score") THEN Head(rows).score ELSE 0)
         + SumScores(Tail(rows))

\* Python's format of n/d to the nearest unit, ties to even.
RoundDiv(n, d) ==
    LET q == n \div d
        r == n % d
    IN  IF 2 * r > d THEN q + 1
        ELSE IF 2 * r = d THEN q + (q % 2)
        ELSE q

\* f"{count/len(df)*100:.1f}", in tenths of a percent
Percent_truncated(count, total) == (count * 1000) \div total
Percent(count, total) == RoundDiv(count * 1000, total)

Labels == {"positivo", "negativo", "neutral"}

\* df['sentiment'].value_counts(): the labels that occur, each with its count
ValueCounts(rows) ==
    [l \in {x \in Labels : CountLabel(rows, x) > 0} |-> CountLabel(rows, l)]

MainValidate ==
    /\ pc = "main_button"
    /\ \/ /\ ~Truthy(player_name)
          /\ ui' = Append(ui, "error_player")
          /\ pc' = "main_done"
          /\ UNCHANGED <<logged_in, method>>
       \/ /\ Truthy(player_name)
          /\ ~credentials
          /\ ui' = Append(ui, "error_credentials")
          /\ pc' = "main_done"
          /\ UNCHANGED <<logged_in, method>>
       \/ /\ Truthy(player_name)
          /\ credentials
          /\ logged_in' = FALSE
          /\ method' = "login_with_cookies"
          /\ pc' = "cookies"
          /\ ui' = ui
    /\ UNCHANGED <<caller, player_name, team_name, credentials, days_back,
                   max_tweets, utc_offset, calls, ncalls, query, yielded, tweet,
                   tweets_data, status, tweets, idx, text, analysis, stats>>

\* lines 270-284; the search's frame is gone
MainCheckTweets ==
    /\ pc = "main_tweets"
    /\ \/ /\ NoTweets(tweets)
          /\ ui' = ui \o <<"warning_no_tweets", "info">>
          /\ pc' = "main_done"
          /\ idx' = idx
       \/ /\ ~NoTweets(tweets)
          /\ ui' = ui
          /\ pc' = "main_analyze"
          /\ idx' = 1
    /\ yielded' = <<>> /\ tweet' = NoPost /\ tweets_data' = <<>>
    /\ UNCHANGED <<caller, player_name, team_name, credentials, days_back,
                   max_tweets, utc_offset, logged_in, calls, ncalls, method,
                   query, status, tweets, text, analysis, stats>>

\* lines 288-290: one turn of the classification loop
MainAnalyze ==
    /\ pc = "main_analyze"
    /\ \/ /\ AnalysisDone(idx, Len(tweets))
          /\ pc' = "main_summary"
          /\ UNCHANGED <<tweets, idx, text, analysis, ui>>
       \/ /\ ~AnalysisDone(idx, Len(tweets))
          /\ \E t \in TextInputs :
               /\ text' = t
               /\ analysis' = analyze_spanish(t)
               /\ tweets' = [tweets EXCEPT ![idx] = Updated(@, t, analysis')]
          /\ idx' = idx + 1
          /\ pc' = "main_analyze"
          /\ ui' = ui
       \/ /\ ~AnalysisDone(idx, Len(tweets))
          \* analyze_spanish raises: nothing in main catches it
          /\ ui' = Append(ui, "exception")
          /\ pc' = "main_done"
          /\ UNCHANGED <<tweets, idx, text, analysis>>
    /\ UNCHANGED <<caller, player_name, team_name, credentials, days_back,
                   max_tweets, utc_offset, logged_in, calls, ncalls, method,
                   query, yielded, tweet, tweets_data, status, stats>>

\* lines 293-309: the DataFrame and the four metrics
MainSummary ==
    /\ pc = "main_summary"
    /\ IF \E i \in 1..Len(tweets) : HasKey(tweets[i], "sentiment")
       THEN LET total == Len(tweets)
                positivos == CountLabel(tweets, "positivo")
                negativos == CountLabel(tweets, "negativo")
                scored == Cardinality({i \in 1..total : HasKey(tweets[i], "score")})
            IN  /\ stats' = [stats EXCEPT
                               !.total = total,
                               !.positivos = positivos,
                               !.negativos = negativos,
                               !.pct_pos = Percent(positivos, total),
                               !.pct_neg = Percent(negativos, total),
                               !.promedio = RoundDiv(SumScores(tweets), scored)]
                /\ ui' = Append(ui, "metrics")
                /\ pc' = "main_chart"
       ELSE \* df['sentiment'] raises KeyError: there is no such column
            /\ stats' = [stats EXCEPT !.total = Len(tweets)]
            /\ ui' = Append(ui, "exception")
            /\ pc' = "main_done"
    /\ UNCHANGED <<caller, player_name, team_name, credentials, days_back,
                   max_tweets, utc_offset, logged_in, calls, ncalls, method,
                   query, yielded, tweet, tweets_data, status, tweets, idx, text,
                   analysis>>

\* lines 312-314
MainChart ==
    /\ pc = "main_chart"
    /\ stats' = [stats EXCEPT !.counts = ValueCounts(tweets)]
    /\ ui' = Append(ui, "bar_chart")
    /\ pc' = "main_listing"
    /\ UNCHANGED <<caller, player_name, team_name, credentials, days_back,
                   max_tweets, utc_offset, logged_in, calls, ncalls, method,
                   query, yielded, tweet, tweets_data, status, tweets, idx, text,
                   analysis>>

\* lines 317-347: the ten most liked tweets (all of them, while there are at
\* most ten), the table and the CSV download
MainListing ==
    /\ pc = "main_listing"
    /\ IF \A i \in 1..Len(tweets) : Label(tweets[i]) \in Labels
       THEN ui' = ui \o <<"top_tweets", "dataframe", "download_button">>
       ELSE \* sentiment_emoji[tweet['sentiment']] raises KeyError
            ui' = Append(ui, "exception")
    /\ pc' = "main_done"
    /\ UNCHANGED <<caller, player_name, team_name, credentials, days_back,
                   max_tweets, utc_offset, logged_in, calls, ncalls, method,
                   query, yielded, tweet, tweets_data, status, tweets, idx, text,
                   analysis, stats>>

(***************************************************************************)
(* The scraper's methods called directly, in any order.                    *)
(***************************************************************************)
Methods == {"login_with_cookies", "login", "search_player_tweets", "get_user_tweets"}

Entry(m) == CASE m = "login_with_cookies" -> "cookies"
              [] m = "login" -> "login"
              [] m = "search_player_tweets" -> "search"
              [] m = "get_user_tweets" -> "user"

DirectCall ==
    /\ pc = "idle"
    /\ ncalls < MaxCalls
    /\ \E m \in Methods :
         /\ method' = m
         /\ pc' = Entry(m)
    /\ ncalls' = ncalls + 1
    /\ yielded' = <<>> /\ tweet' = NoPost /\ tweets_data' = <<>>
    /\ tweets' = <<>> /\ status' = "" /\ query' = None
    /\ UNCHANGED <<caller, player_name, team_name, credentials, days_back,
                   max_tweets, utc_offset, logged_in, calls, idx, text, analysis,
                   ui, stats>>

(***************************************************************************)
(* The program.                                                            *)
(***************************************************************************)
InitMain ==
    /\ pc = "main_button" /\ caller = "main"
    /\ player_name \in NameInputs /\ team_name \in TeamInputs
    /\ credentials \in BOOLEAN
    /\ days_back \in 1..MaxDaysBack /\ max_tweets \in 1..MaxTweets
    /\ utc_offset \in LocalOffsets
    /\ text = NoText
    /\ Fresh

InitDirect ==
    /\ pc = "idle" /\ caller = "direct"
    /\ player_name = <<"Messi">> /\ team_name \in {None, <<"Boys">>}
    /\ credentials = TRUE
    /\ days_back \in 1..MaxDaysBack /\ max_tweets \in 1..MaxTweets
    /\ utc_offset = 0
    /\ text = NoText
    /\ Fresh

Init == InitMain \/ InitDirect

Next ==
    \/ MainValidate
    \/ LoginWithCookies
    \/ Login
    \/ SearchPlayerTweets
    \/ GetUserTweets
    \/ ForNext
    \/ LimitCheck
    \/ DateFilter
    \/ AppendTweet
    \/ MainCheckTweets
    \/ MainAnalyze
    \/ MainSummary
    \/ MainChart
    \/ MainListing
    \/ DirectCall

Spec == Init /\ [][Next]_vars

(***************************************************************************)
(* The query builder alone: every name and team, one call.                 *)
(***************************************************************************)
InitQuery ==
    /\ pc = "query_start" /\ caller = "query"
    /\ player_name \in Names /\ team_name \in Teams
    /\ credentials = FALSE /\ days_back = 1 /\ max_tweets = 1 /\ utc_offset = 0
    /\ text = NoText
    /\ Fresh

QueryStep ==
    /\ pc = "query_start"
    /\ query' = BuildQuery(player_name, team_name)
    /\ pc' = "query_done"
    /\ UNCHANGED <<caller, player_name, team_name, credentials, days_back,
                   max_tweets, utc_offset, logged_in, calls, ncalls, method,
                   yielded, tweet, tweets_data, status, tweets, idx, text,
                   analysis, ui, stats>>

NextQuery == QueryStep

SpecQuery == InitQuery /\ [][NextQuery]_vars

(***************************************************************************)
(* analyze_spanish alone: every text, one call.                            *)
(***************************************************************************)
InitAnalyze ==
    /\ pc = "analyze_start" /\ caller = "analyze"
    /\ text \in Texts
    /\ player_name = <<>> /\ team_name = <<>>
    /\ credentials = FALSE /\ days_back = 1 /\ max_tweets = 1 /\ utc_offset = 0
    /\ Fresh

AnalyzeStep ==
    /\ pc = "analyze_start"
    /\ analysis' = analyze_spanish(text)
    /\ pc' = "analyze_done"
    /\ UNCHANGED <<caller, player_name, team_name, credentials, days_back,
                   max_tweets, utc_offset, logged_in, calls, ncalls, method,
                   query, yielded, tweet, tweets_data, status, tweets, idx, text,
                   ui, stats>>

NextAnalyze == AnalyzeStep

SpecAnalyze == InitAnalyze /\ [][NextAnalyze]_vars

(***************************************************************************)
(* Properties.                                                             *)
(***************************************************************************)
Range(f) == {f[i] : i \in DOMAIN f}

RECURSIVE CountTok(_, _)
CountTok(str, tok) ==
    IF str = <<>> THEN 0
    ELSE (IF Head(str) = tok THEN 1 ELSE 0) + CountTok(Tail(str), tok)

\* "" or only whitespace
IsBlank(str) == \A i \in 1..Len(str) : str[i] = Blank

Presented == {"metrics", "bar_chart", "top_tweets", "dataframe", "download_button"}

Classified(d) ==
    /\ HasKey(d, "sentiment") /\ d.sentiment \in Labels
    /\ HasKey(d, "score")

\* C1: in a run of main, a search that met a fault (in search_tweet, in the
\* iteration, in a date) or got no post returns the empty list; main then shows
\* the "no tweets" advisory and ends, having classified and rendered nothing,
\* and no exception leaves the search.
C1_RetrievalFaultIsNoResults ==
    caller = "main" =>
      /\ (pc = "main_tweets" /\ (status \in Caught \/ yielded = <<>>))
            => tweets = <<>>
      /\ (pc = "main_done" /\ (status \in Caught
                               \/ (status = "returned" /\ tweets = <<>>)))
            => /\ ui = <<"warning_no_tweets", "info">>
               /\ tweets = <<>>
               /\ stats = NoStats /\ analysis = NoAnalysis
      /\ pc \in {"main_analyze", "main_summary", "main_chart", "main_listing"}
            => status = "returned" /\ tweets # <<>>
      /\ method = "search_player_tweets" => status # "raised"

C1_Witness ==
    /\ caller = "main" /\ pc = "main_done" /\ status = "caught_date"
    /\ ui = <<"warning_no_tweets", "info">>

\* C2 (as claimed): a run whose player_name is empty or only whitespace is
\* rejected before any cookie load, login or search, and none is made later;
\* with the credentials set, the error shown is the player-name error.
C2_BlankNameRejected ==
    (caller = "main" /\ IsBlank(player_name)) =>
      /\ calls = <<>>
      /\ pc \in {"main_button", "main_done"}
      /\ pc = "main_done" => Len(ui) = 1 /\ ui[1] \in {"error_player", "error_credentials"}
      /\ (pc = "main_done" /\ credentials) => ui = <<"error_player">>

\* C3: the collected list never holds more than max_tweets posts, in
\* search_player_tweets and in get_user_tweets alike, nor does the list
\* returned; once the limit is reached no further post is examined or added.
C3_NeverMoreThanMaxTweets ==
    /\ Len(tweets_data) <= max_tweets
    /\ Len(tweets) <= max_tweets
    /\ pc \in {"date", "append"} => Len(tweets_data) < max_tweets

C3_Witness ==
    /\ method = "search_player_tweets" /\ status = "returned"
    /\ pc = "main_tweets"
    /\ Len(tweets) = max_tweets /\ Len(yielded) > max_tweets

\* C6: whatever of a run's posts is presented (summary, chart, listing, table,
\* export), every post of the run carries a label and a score by then; when the
\* classification raises, nothing of the run is presented and the run ends
\* with the exception, not with the "no tweets" advisory.
C6_ClassifiedBeforePresented ==
    caller = "main" =>
      /\ (\E i \in 1..Len(ui) : ui[i] \in Presented)
            => /\ tweets # <<>>
               /\ \A k \in 1..Len(tweets) : Classified(tweets[k])
      /\ pc \in {"main_summary", "main_chart", "main_listing"}
            => \A k \in 1..Len(tweets) : Classified(tweets[k])
      /\ "exception" \in Range(ui)
            => /\ pc = "main_done"
               /\ Range(ui) \cap Presented = {}
               /\ "warning_no_tweets" \notin Range(ui)

C6_Witness ==
    /\ caller = "main" /\ pc = "main_done"
    /\ "download_button" \in Range(ui)
    /\ Len(tweets) >= 2

Successful == {Call("load_cookies", TRUE), Call("save_cookies", TRUE)}
BackendReads == {"search_tweet", "get_user_by_screen_name", "get_user_tweets"}

\* C9: main loads the cookies first, logs in with the credentials only after
\* the cookie login failed, searches only with logged_in set, and after a
\* failed credential login ends with the login error without searching; a
\* search or a user-timeline call on a scraper that is not logged in raises
\* without having called the backend.
C9_SessionOrder ==
    /\ logged_in <=> (\E i \in 1..Len(calls) : calls[i] \in Successful)
    /\ \A i \in 1..Len(calls) :
         calls[i].fn \in BackendReads
            => \E j \in 1..(i - 1) : calls[j] \in Successful
    /\ pc \in {"for", "limit", "date", "append"} => logged_in
    /\ (pc = "idle" /\ ncalls > 0 /\ ~logged_in
        /\ method \in {"search_player_tweets", "get_user_tweets"})
         => status = "raised" /\ tweets = <<>>
    /\ caller = "main" =>
         /\ calls # <<>> => calls[1].fn = "load_cookies"
         /\ \A i \in 1..Len(calls) :
              calls[i].fn = "login"
                 => i = 2 /\ calls[1] = Call("load_cookies", FALSE)
         /\ (\E i \in 1..Len(calls) :
               calls[i] \in {Call("login", FALSE), Call("save_cookies", FALSE)})
              => /\ pc = "main_done" /\ ui = <<"error_login">>
                 /\ \A i \in 1..Len(calls) : calls[i].fn \notin BackendReads

C9_Witness ==
    /\ caller = "main"
    /\ calls = <<Call("load_cookies", FALSE), Call("login", TRUE),
                 Call("save_cookies", TRUE), Call("search_tweet", TRUE)>>

\* The age of a post in whole days, both instants taken in UTC.
TrueAgeDays(post) == post.hours_ago \div 24

RECURSIVE InWindow(_, _)
InWindow(posts, days) ==
    IF posts = <<>> THEN <<>>
    ELSE IF TrueAgeDays(Head(posts)) <= days
         THEN <<Head(posts)>> \o InWindow(Tail(posts), days)
         ELSE InWindow(Tail(posts), days)

FirstN(str, n) == SubSeq(str, 1, Min(n, Len(str)))

\* C10 (as claimed): when search_player_tweets returns its list, every post in
\* it is at most days_back whole days old, and the list is the first max_tweets
\* posts of that age among those the backend yielded, in the backend's order.
C10_OnlyPostsInWindow ==
    (method = "search_player_tweets" /\ status = "returned"
     /\ pc \in {"main_tweets", "idle"}) =>
      /\ \A i \in 1..Len(tweets) : TrueAgeDays(tweets[i].fecha) <= days_back
      /\ LET expected == FirstN(InWindow(yielded, days_back), max_tweets)
         IN  /\ Len(tweets) = Len(expected)
             /\ \A i \in 1..Len(tweets) : tweets[i].fecha = expected[i]

(***************************************************************************)
(* Properties of the query, under SpecQuery.                               *)
(***************************************************************************)
ValidName(str) == ~IsBlank(str)

TwoTokens(str) ==
    /\ Len(str) = 3
    /\ str[2] = Blank
    /\ str[1] \notin {Blank, Quote} /\ str[3] \notin {Blank, Quote}

\* C4 (as claimed): with no team, the query holds one exact phrase, of the
\* player's name, no OR and no team clause.
C4_NoTeamNoOr ==
    (pc = "query_done" /\ ValidName(player_name) /\ ~Truthy(team_name)) =>
      /\ query[1] = Quote
      /\ SubSeq(query, 2, Len(player_name) + 1) = player_name
      /\ query[Len(player_name) + 2] = Quote
      /\ LET rest == SubSeq(query, Len(player_name) + 3, Len(query))
         IN  CountTok(rest, Quote) = 0 /\ CountTok(rest, "OR") = 0

\* C4 (amended): with no team, the query is the exact phrase of the player's
\* name, then the keyword group (gol OR asistencia OR partido), then the two
\* filters: one phrase, no team clause, and no OR but the group's two.
C4_NoTeamKeywordGroup ==
    (pc = "query_done" /\ ValidName(player_name) /\ ~Truthy(team_name)) =>
      /\ query[1] = Quote
      /\ SubSeq(query, 2, Len(player_name) + 1) = player_name
      /\ query[Len(player_name) + 2] = Quote
      /\ LET rest == SubSeq(query, Len(player_name) + 3, Len(query))
         IN  /\ rest = <<" ", "(", "gol", " ", "OR", " ", "asistencia", " ",
                         "OR", " ", "partido", ")", " ", "lang:es", " ",
                         "-filter:retweets">>
             /\ CountTok(rest, Quote) = 0
             /\ CountTok(rest, "OR") = 2

C4_Witness ==
    /\ pc = "query_done"
    /\ player_name = <<"Lionel", Blank, "Messi">> /\ team_name = <<>>
    /\ CountTok(query, "OR") = 2

\* C5 (as claimed): with a name of two tokens and a team, the query is three
\* clauses joined by OR: the full name, first token with team, last token
\* with team.
C5_ThreeOrClauses ==
    (pc = "query_done" /\ TwoTokens(player_name) /\ Truthy(team_name)) =>
      /\ CountTok(query, "OR") = 2
      /\ CountTok(query, player_name[1]) >= 2
      /\ CountTok(query, player_name[3]) >= 2

\* C5 (amended): with a name of two tokens and a team, the query is two exact
\* phrases side by side, the full name and the team, then the two filters; it
\* has no OR and no clause for the first or the last token alone.
C5_TwoPhrasesNoOr ==
    (pc = "query_done" /\ TwoTokens(player_name) /\ Truthy(team_name)) =>
      LET n == Len(player_name)
          t == Len(team_name)
      IN  /\ query[1] = Quote
          /\ SubSeq(query, 2, n + 1) = player_name
          /\ SubSeq(query, n + 2, n + 4) = <<Quote, " ", Quote>>
          /\ SubSeq(query, n + 5, n + t + 4) = team_name
          /\ SubSeq(query, n + t + 5, Len(query))
               = <<Quote, " ", "lang:es", " ", "-filter:retweets">>
          /\ CountTok(query, "OR") = 0
          /\ CountTok(query, player_name[1])
               = (IF player_name[3] = player_name[1] THEN 2 ELSE 1)
          /\ CountTok(query, player_name[3])
               = (IF player_name[3] = player_name[1] THEN 2 ELSE 1)

C5_Witness ==
    /\ pc = "query_done"
    /\ player_name = <<"Lionel", Blank, "Messi">> /\ team_name = <<"Boys">>
    /\ CountTok(query, Quote) = 4

(***************************************************************************)
(* Property of analyze_spanish, under SpecAnalyze.                         *)
(***************************************************************************)
\* C7: analyze_spanish returns one of the three labels and a score within
\* [-1.0, 1.0], whatever the keyword counts and the compound score; the
\* keyword scores 0.8 + 0.1*pos and -0.8 - 0.1*neg stop at 1.0 and -1.0.
C7_LabelAndScoreInRange ==
    pc = "analyze_done" =>
      /\ analysis.sentiment \in Labels
      /\ analysis.score >= -100 /\ analysis.score <= 100
      /\ text.pos_words > text.neg_words
           => /\ analysis.sentiment = "positivo"
              /\ analysis.score = (IF text.pos_words = 1 THEN 90 ELSE 100)
      /\ text.neg_words > text.pos_words
           => /\ analysis.sentiment = "negativo"
              /\ analysis.score = (IF text.neg_words = 1 THEN -90 ELSE -100)
      /\ text.pos_words = text.neg_words => analysis.score = text.compound

C7_Witness ==
    /\ pc = "analyze_done"
    /\ text.pos_words = 5 /\ text.neg_words = 0
    /\ analysis.score = 100

====
